---- MODULE Spec2Model ----
(***************************************************************************)
(* Model of singlediodeIV.py: generateIV (the single-diode I-V sweep) and  *)
(* the plotting helpers make_fig, make_semilog_fig, plotIV_inline and      *)
(* setZoom.                                                                *)
(*                                                                         *)
(* Python list objects live in `heap` (a sequence; an object's identity is *)
(* its index), so that aliasing and in-place mutation are observable.      *)
(*                                                                         *)
(* Parameters and grid voltages are written as integers:                   *)
(*   n   dimensionless      T   kelvin                                     *)
(*   I0, Iph  nanoamperes   Rs, Rsh  ohms                                  *)
(*   V   centivolts (the sweep step 0.01 V is 1)                           *)
(* and stand for the Python numbers n, T, I0*1E-9 (the float the literal   *)
(* denotes), Rs, Rsh and the element of np.arange(-2.0, 1.0, 0.01) at that *)
(* grid position.  The value of the Lambert-W expression is not computed;  *)
(* a current is the record [p, V, neg, finite]: the model current of       *)
(* parameters p at voltage V, whether it has been negated, and whether the *)
(* float64 evaluation of lines 76-77 is finite.  That test follows the     *)
(* code's operations one by one in IEEE-754 binary64 arithmetic.           *)
(***************************************************************************)
EXTENDS Integers, Sequences, FiniteSets, TLC

VARIABLES pc, heap, user_parameters, default, parameters, unpacked,
          voltages, currents, it, V, calls, helper, data, kwargs, fig,
          raised

vars == <<pc, heap, user_parameters, default, parameters, unpacked,
          voltages, currents, it, V, calls, helper, data, kwargs, fig,
          raised>>

solverVars == <<pc, user_parameters, default, parameters, unpacked,
                voltages, currents, it, V, calls>>

plotVars == <<helper, data, kwargs, fig, raised>>

-----------------------------------------------------------------------------
(* Bounds *)

\* number of generateIV calls the caller makes
MaxCalls == 2

\* longest series handed to a plotting helper
MaxData == 2

\* most options passed in one call of a plotting helper
MaxOptions == 2

-----------------------------------------------------------------------------
(* Program constants *)

\* step_size = 0.01 V, in centivolts
step_size == 1

\* np.arange(-2.0, 1.0, step_size): start and stop, in centivolts
VMin == -200

VMax == 100

\* 8.617332E-5 V/K, in units of 1e-11 V/K
kB == 8617332

\* default = [1, 300, 1E-9, 0.0, 10, 1E6]
DefaultParameters == <<1, 300, 1, 0, 10, 1000000>>

-----------------------------------------------------------------------------
(* Inputs: the lists the caller owns and the argument tuples it passes *)

CallerLists ==
    << <<1, 300, 1, 0, 10, 1000000>>,      \* 1: the documented defaults, spelled out
       <<2, 300, 1>>,                      \* 2: n, T, I0 only
       <<5000000, 10, 1000000>>,           \* 3: Iph = 5 mA, Rs, Rsh
       <<1, 300, 1, 0, 0, 1000000>>,       \* 4: Rs = 0
       <<1, 300, 1, 0, 10, 0>>,            \* 5: Rsh = 0
       <<1, -1, 1, 0, 10, 1000000>>,       \* 6: T = -1
       <<1, 1, 1, 0, 10, 1000000>>,        \* 7: T = 1 K
       <<2>> >>                            \* 8: one more entry (an area of 2)

ArgChoices ==
    { <<>>, <<1>>, <<2>>, <<2, 3>>, <<4>>, <<5>>, <<6>>, <<7>>, <<1, 8>> }

-----------------------------------------------------------------------------
(* Helpers *)

Abs(x) == IF x < 0 THEN -x ELSE x

\* Exact integer arithmetic beyond the machine word: a magnitude is a
\* little-endian sequence of base-2^15 limbs without leading zeros (zero is
\* the empty sequence).
RECURSIVE MagFromNat(_)
MagFromNat(x) == IF x = 0 THEN <<>> ELSE <<x % 32768>> \o MagFromNat(x \div 32768)

RECURSIVE MagAdd(_, _, _)
MagAdd(a, b, carry) ==
    IF a = <<>> /\ b = <<>>
    THEN (IF carry = 0 THEN <<>> ELSE <<carry>>)
    ELSE LET x == IF a = <<>> THEN 0 ELSE Head(a)
             y == IF b = <<>> THEN 0 ELSE Head(b)
             t == x + y + carry
         IN  <<t % 32768>> \o MagAdd(IF a = <<>> THEN <<>> ELSE Tail(a),
                                     IF b = <<>> THEN <<>> ELSE Tail(b),
                                     t \div 32768)

RECURSIVE MagMulLimb(_, _, _)
MagMulLimb(a, d, carry) ==
    IF a = <<>>
    THEN MagFromNat(carry)
    ELSE LET t == Head(a) * d + carry
         IN  <<t % 32768>> \o MagMulLimb(Tail(a), d, t \div 32768)

RECURSIVE MagMul(_, _)
MagMul(a, b) ==
    IF a = <<>> \/ b = <<>>
    THEN <<>>
    ELSE LET rest == MagMul(a, Tail(b))
             low  == IF Head(b) = 0 THEN <<>> ELSE MagMulLimb(a, Head(b), 0)
         IN  MagAdd(low, IF rest = <<>> THEN <<>> ELSE <<0>> \o rest, 0)

\* a > b on magnitudes
RECURSIVE MagGreater(_, _)
MagGreater(a, b) ==
    IF Len(a) # Len(b) THEN Len(a) > Len(b)
    ELSE IF a = <<>> THEN FALSE
    ELSE IF a[Len(a)] # b[Len(b)] THEN a[Len(a)] > b[Len(b)]
    ELSE MagGreater(SubSeq(a, 1, Len(a) - 1), SubSeq(b, 1, Len(b) - 1))

\* a - b on magnitudes, for a >= b
RECURSIVE MagSubRaw(_, _, _)
MagSubRaw(a, b, borrow) ==
    IF a = <<>>
    THEN <<>>
    ELSE LET y == IF b = <<>> THEN 0 ELSE Head(b)
             t == Head(a) - y - borrow
         IN  <<IF t < 0 THEN t + 32768 ELSE t>>
               \o MagSubRaw(Tail(a), IF b = <<>> THEN <<>> ELSE Tail(b),
                            IF t < 0 THEN 1 ELSE 0)

RECURSIVE MagStrip(_)
MagStrip(a) ==
    IF a = <<>> \/ a[Len(a)] # 0 THEN a ELSE MagStrip(SubSeq(a, 1, Len(a) - 1))

MagSub(a, b) == MagStrip(MagSubRaw(a, b, 0))

\* floor(a / d) for a single limb d, most significant limb first
RECURSIVE MagDivLimb(_, _, _)
MagDivLimb(a, d, rem) ==
    IF a = <<>>
    THEN <<>>
    ELSE LET t == rem * 32768 + a[Len(a)]
         IN  Append(MagDivLimb(SubSeq(a, 1, Len(a) - 1), d, t % d), t \div d)

RECURSIVE BitLenLimb(_)
BitLenLimb(x) == IF x = 0 THEN 0 ELSE 1 + BitLenLimb(x \div 2)

\* number of binary digits
BitLen(a) == IF a = <<>> THEN 0 ELSE 15 * (Len(a) - 1) + BitLenLimb(a[Len(a)])

\* a * 2^k
ShiftLeft(a, k) ==
    IF a = <<>> THEN <<>>
    ELSE [i \in 1..(k \div 15) |-> 0] \o MagMulLimb(a, 2 ^ (k % 15), 0)

\* floor(a / 2^k)
ShiftRight(a, k) ==
    IF k \div 15 >= Len(a) THEN <<>>
    ELSE MagStrip(MagDivLimb(SubSeq(a, k \div 15 + 1, Len(a)), 2 ^ (k % 15), 0))

IsOdd(a) == a # <<>> /\ Head(a) % 2 = 1

\* a magnitude below 2^30 as a number
MagToNat(a) ==
    IF a = <<>> THEN 0 ELSE IF Len(a) = 1 THEN a[1] ELSE a[1] + 32768 * a[2]

\* d.q and d.r raised and lowered by b until d.r < b
RECURSIVE DigitFix(_, _)
DigitFix(d, b) ==
    IF MagGreater(b, d.r) THEN d
    ELSE DigitFix([q |-> d.q + 1, r |-> MagSub(d.r, b)], b)

DigitFrom(r, b, est) ==
    DigitFix([q |-> est, r |-> MagSub(ShiftLeft(r, 15), MagMulLimb(b, est, 0))], b)

DigitAt(r, b, L) ==
    DigitFrom(r, b, MagToNat(ShiftRight(r, L - 30))
                      \div (MagToNat(ShiftRight(b, L - 15)) + 1))

\* long division, one limb: floor(r * 2^15 / b) and the remainder, for
\* r < b and b of at least 30 binary digits; the digit is estimated from the
\* leading digits of r and b and then corrected
Digit(r, b) == DigitAt(r, b, BitLen(b))

Big(x) == [neg |-> x < 0, mag |-> MagFromNat(Abs(x))]

BigAdd(a, b) ==
    IF a.neg = b.neg THEN [neg |-> a.neg, mag |-> MagAdd(a.mag, b.mag, 0)]
    ELSE IF MagGreater(a.mag, b.mag) THEN [neg |-> a.neg, mag |-> MagSub(a.mag, b.mag)]
    ELSE IF MagGreater(b.mag, a.mag) THEN [neg |-> b.neg, mag |-> MagSub(b.mag, a.mag)]
    ELSE [neg |-> FALSE, mag |-> <<>>]

-----------------------------------------------------------------------------
(* IEEE-754 binary64, the arithmetic of Python floats and np.float64.       *)
(* A finite number is s * m * 2^e with s = 1 or -1 and m = 0 (e = 0), or   *)
(* 2^52 <= m < 2^53, or m < 2^52 and e = -1074 (subnormal).  Every          *)
(* operation computes the exact result and rounds it to nearest, ties to   *)
(* even.  A division by zero follows numpy (inf or nan, no exception).     *)

FNan == [k |-> "nan", s |-> 1, m |-> <<>>, e |-> 0]

FInf(s) == [k |-> "inf", s |-> s, m |-> <<>>, e |-> 0]

FZero(s) == [k |-> "fin", s |-> s, m |-> <<>>, e |-> 0]

IsZero(x) == x.k = "fin" /\ x.m = <<>>

\* s * m * 2^e for m < 2^53: zero, a float, or inf when out of range
FPack(s, m, e) ==
    IF m = <<>> THEN FZero(s)
    ELSE IF BitLen(m) + e > 1024 THEN FInf(s)
    ELSE [k |-> "fin", s |-> s, m |-> m, e |-> e]

\* a carry out of the rounding renormalised
FRenorm(s, q, e) ==
    IF BitLen(q) > 53 THEN FPack(s, ShiftRight(q, 1), e + 1) ELSE FPack(s, q, e)

\* q with cut-off part r rounded: up when r is above half a unit, or is
\* half a unit and q is odd or more was cut off before
FRoundCut(s, q, e, r, half, sticky) ==
    FRenorm(s,
            IF MagGreater(r, half) \/ (r = half /\ (sticky \/ IsOdd(q)))
            THEN MagAdd(q, <<1>>, 0) ELSE q,
            e)

FRoundBits(s, M, e, sticky, k, q) ==
    FRoundCut(s, q, e + k, MagSub(M, ShiftLeft(q, k)), ShiftLeft(<<1>>, k - 1),
              sticky)

\* k is the number of low digits of M that do not fit
FRoundShift(s, M, e, sticky, k) ==
    IF k <= 0 THEN FPack(s, ShiftLeft(M, -k), e + k)
    ELSE FRoundBits(s, M, e, sticky, k, ShiftRight(M, k))

\* the float nearest to s * M * 2^e (plus a positive fraction of the last
\* unit of M when sticky)
FRound(s, M, e, sticky) ==
    IF M = <<>> THEN FZero(s)
    ELSE FRoundShift(s, M, e, sticky,
                     IF BitLen(M) - 53 > -1074 - e THEN BitLen(M) - 53
                     ELSE -1074 - e)

\* int -> float
FromInt(x) == FRound(IF x < 0 THEN -1 ELSE 1, MagFromNat(Abs(x)), 0, FALSE)

FNeg(x) == IF x.k = "nan" THEN x ELSE [x EXCEPT !.s = -x.s]

\* n more limbs of the quotient r / b put below Q, then rounded
RECURSIVE DivDigits(_, _, _, _, _, _)
DivDigits(s, e, Q, r, b, n) ==
    IF n = 0
    THEN FRound(s, MagStrip(Q), e, r # <<>>)
    ELSE LET d == Digit(r, b)
         IN  DivDigits(s, e, <<d.q>> \o Q, d.r, b, n - 1)

DivAligned(s, e, A1, B1) ==
    IF MagGreater(B1, A1) THEN DivDigits(s, e, <<0>>, A1, B1, 4)
    ELSE DivDigits(s, e, <<1>>, MagSub(A1, B1), B1, 4)

DivLen(s, A, B, e, la, lb) ==
    DivAligned(s, e + la - lb - 60,
               ShiftLeft(A, (IF la > lb THEN la ELSE lb) + 30 - la),
               ShiftLeft(B, (IF la > lb THEN la ELSE lb) + 30 - lb))

\* the float nearest to s * (A * 2^ea) / (B * 2^eb), A and B nonzero:
\* sixty quotient digits after the leading one, the rest is sticky
DivRound(s, A, ea, B, eb) == DivLen(s, A, B, ea - eb, BitLen(A), BitLen(B))

FDiv(x, y) ==
    IF x.k = "nan" \/ y.k = "nan" THEN FNan
    ELSE IF x.k = "inf" THEN (IF y.k = "inf" THEN FNan ELSE FInf(x.s * y.s))
    ELSE IF y.k = "inf" THEN FZero(x.s * y.s)
    ELSE IF IsZero(y) THEN (IF IsZero(x) THEN FNan ELSE FInf(x.s * y.s))
    ELSE IF IsZero(x) THEN FZero(x.s * y.s)
    ELSE DivRound(x.s * y.s, x.m, x.e, y.m, y.e)

FMul(x, y) ==
    IF x.k = "nan" \/ y.k = "nan" THEN FNan
    ELSE IF x.k = "inf" \/ y.k = "inf"
         THEN (IF IsZero(x) \/ IsZero(y) THEN FNan ELSE FInf(x.s * y.s))
    ELSE FRound(x.s * y.s, MagMul(x.m, y.m), x.e + y.e, FALSE)

FSum(sum, e0) ==
    IF sum.mag = <<>> THEN FZero(1)
    ELSE FRound(IF sum.neg THEN -1 ELSE 1, sum.mag, e0, FALSE)

FAddAligned(x, y, e0) ==
    FSum(BigAdd([neg |-> x.s = -1, mag |-> ShiftLeft(x.m, x.e - e0)],
                [neg |-> y.s = -1, mag |-> ShiftLeft(y.m, y.e - e0)]), e0)

FAdd(x, y) ==
    IF x.k = "nan" \/ y.k = "nan" THEN FNan
    ELSE IF x.k = "inf"
         THEN (IF y.k = "inf" /\ y.s # x.s THEN FNan ELSE x)
    ELSE IF y.k = "inf" THEN y
    ELSE IF IsZero(x) /\ IsZero(y)
         THEN FZero(IF x.s = -1 /\ y.s = -1 THEN -1 ELSE 1)
    ELSE IF IsZero(x) THEN y
    ELSE IF IsZero(y) THEN x
    ELSE IF x.e - y.e > 64 THEN x
    ELSE IF y.e - x.e > 64 THEN y
    ELSE FAddAligned(x, y, IF x.e < y.e THEN x.e ELSE y.e)

\* x > y for finite nonzero x and y of the same sign s
FGreaterMag(x, y, s) ==
    IF s = 1 THEN x.e > y.e \/ (x.e = y.e /\ MagGreater(x.m, y.m))
    ELSE y.e > x.e \/ (x.e = y.e /\ MagGreater(y.m, x.m))

\* x > y
FGreater(x, y) ==
    IF x.k = "nan" \/ y.k = "nan" THEN FALSE
    ELSE IF IsZero(x) /\ IsZero(y) THEN FALSE
    ELSE IF IsZero(x) THEN y.s = -1
    ELSE IF IsZero(y) THEN x.s = 1
    ELSE IF x.s # y.s THEN x.s > y.s
    ELSE IF x.k = "inf" \/ y.k = "inf"
         THEN (IF x.k = y.k THEN FALSE ELSE (x.k = "inf") = (x.s = 1))
    ELSE FGreaterMag(x, y, x.s)

\* the float a decimal literal  x * 10^-digits  denotes (digits <= 12)
FDecimal(x, digits) ==
    IF x = 0 THEN FZero(1)
    ELSE DivRound(IF x < 0 THEN -1 ELSE 1, MagFromNat(Abs(x)), 0,
                  MagMul(MagFromNat(10 ^ (IF digits > 6 THEN 6 ELSE digits)),
                         MagFromNat(10 ^ (IF digits > 6 THEN digits - 6 ELSE 0))),
                  0)

\* a closed range: stop itself is sampled when it lies on the grid
arangeInclusive(start, stop, step) ==
    LET len == IF stop >= start THEN (stop - start) \div step + 1 ELSE 0
    IN  [i \in 1..len |-> start + (i - 1) * step]

\* np.arange(start, stop, step): ceil((stop - start)/step) samples,
\* start + i*step, stop excluded
arange(start, stop, step) ==
    LET len == IF stop > start THEN (stop - start + step - 1) \div step ELSE 0
    IN  [i \in 1..len |-> start + (i - 1) * step]

\* for i in user_parameters: parameters += i   (contents of the new list)
RECURSIVE Concat(_, _)
Concat(h, args) ==
    IF args = <<>> THEN <<>> ELSE h[Head(args)] \o Concat(h, Tail(args))

\* the first argument list itself is extended by the others
CollectIntoFirst(h, args, dflt) ==
    IF args # <<>>
    THEN [heap |-> [h EXCEPT ![Head(args)] = Concat(h, args)], id |-> Head(args)]
    ELSE [heap |-> h, id |-> dflt]

\* lines 50-57: the object `parameters` is bound to and the heap afterwards.
\* With arguments a new list is created and extended in place by each
\* argument list; without, parameters is the default list itself.
CollectParameters(h, args, dflt) ==
    IF args # <<>>
    THEN [heap |-> Append(h, Concat(h, args)), id |-> Len(h) + 1]
    ELSE [heap |-> h, id |-> dflt]

\* line 62: n, T, I0, Iph, Rs, Rsh = parameters  needs exactly six entries
UnpackOK(params) == Len(params) = 6

Unpack(params) ==
    [n |-> params[1], T |-> params[2], I0 |-> params[3],
     Iph |-> params[4], Rs |-> params[5], Rsh |-> params[6]]

\* 8.617332E-5
kBoltzmann == FDecimal(kB, 11)

\* line 72: Vth = 8.617332E-5*T
Vth(p) == FMul(kBoltzmann, FromInt(p.T))

\* the float a current of x nanoamperes is written as (1E-9 for x = 1)
Amperes(x) == FDecimal(x, 9)

ArangeFill(i, start, next) ==
    IF i = 0 THEN start
    ELSE IF i = 1 THEN next
    ELSE FAdd(start, FMul(FromInt(i), FAdd(next, FNeg(start))))

\* line 66: np.arange fills the array with start, start + step, and then
\* start + i*delta with delta = (start + step) - start
ArangeElement(i, start, step) == ArangeFill(i, start, FAdd(start, step))

\* the float held by the sample whose grid voltage is v
SampleValue(v) ==
    ArangeElement((v - VMin) \div step_size, FDecimal(VMin, 2),
                  FDecimal(step_size, 2))

\* lines 76-77: the Python-number divisions that raise ZeroDivisionError:
\* (Rs*I0)/(n*Vth), Rs/Rsh and (n*Vth)/(Rs)
DividesByZero(p) == p.n = 0 \/ p.T = 0 \/ p.Rsh = 0 \/ p.Rs = 0

InvariantsFrom(p, one, nVth) ==
    [c    |-> FMul(FromInt(p.Rs), FAdd(Amperes(p.Iph), Amperes(p.I0))),
     one  |-> one,
     den  |-> FMul(nVth, one),
     pref |-> FDiv(FMul(FromInt(p.Rs), Amperes(p.I0)), nVth)]

\* lines 76-77: the subexpressions that do not depend on V
\*   c    = Rs*(Iph+I0)          one  = 1+Rs/Rsh
\*   den  = n*Vth*(1+Rs/Rsh)     pref = (Rs*I0)/(n*Vth)
LoopInvariants(p) ==
    InvariantsFrom(p, FAdd(FromInt(1), FDiv(FromInt(p.Rs), FromInt(p.Rsh))),
                   FMul(FromInt(p.n), Vth(p)))

\* line 76: the argument of np.exp, (Rs*(Iph+I0)+V) / (n*Vth*(1+Rs/Rsh))
ExpArg(inv, Vf) == FDiv(FAdd(inv.c, Vf), inv.den)

\* the largest float whose exponential is finite, 709.782712893384
ExpThreshold ==
    DivRound(1, MagAdd(MagMul(MagFromNat(709782712), MagFromNat(1000000)),
                       MagFromNat(893384), 0), 0,
             MagMul(MagFromNat(1000000), MagFromNat(1000000)), 0)

\* np.exp(x) is inf or nan
ExpOverflows(x) ==
    \/ x.k = "nan"
    \/ x.k = "inf" /\ x.s = 1
    \/ x.k = "fin" /\ FGreater(x, ExpThreshold)

\* The exponential to more digits than a float holds, to decide whether the
\* product  (Rs*I0)/(n*Vth) * np.exp(...)  of line 76 overflows.  Numbers
\* are fixed-point magnitudes with 135 binary digits after the point.
FixOne == ShiftLeft(<<1>>, 135)

FixMul(a, b) == ShiftRight(MagMul(a, b), 135)

\* the series of e^y summed from its last term: acc becomes
\* 1 + y/n * acc for n = 18 down to 1 (acc is never zero; testing it makes
\* the evaluation proceed term by term)
RECURSIVE ExpSeries(_, _, _)
ExpSeries(y, acc, n) ==
    IF n = 0 \/ acc = <<>> THEN acc
    ELSE ExpSeries(y, MagAdd(FixOne, MagStrip(MagDivLimb(FixMul(y, acc), n, 0)), 0),
                   n - 1)

\* mm * 2^e kept to 150 binary digits
Keep150(mm, e, L) ==
    IF L > 150 THEN [m |-> ShiftRight(mm, L - 150), e |-> e + L - 150]
    ELSE [m |-> mm, e |-> e]

SquareOf(mm, e) == Keep150(mm, e, BitLen(mm))

\* the square of f.m * 2^f.e
Square(f) == SquareOf(MagMul(f.m, f.m), 2 * f.e)

\* f squared n times (f.m is never zero; testing it makes the evaluation
\* proceed square by square)
RECURSIVE SquareTimes(_, _)
SquareTimes(f, n) ==
    IF n = 0 \/ f.m = <<>> THEN f ELSE SquareTimes(Square(f), n - 1)

\* e^x = (e^(x / 2^15))^(2^15) as m * 2^e, for a float 0 < x < 1024; the
\* relative error is below 2^-100
ExpWide(x) ==
    SquareTimes([m |-> ExpSeries(IF x.e + 120 >= 0
                                 THEN ShiftLeft(x.m, x.e + 120)
                                 ELSE ShiftRight(x.m, -(x.e + 120)),
                                 FixOne, 18),
                 e |-> -135], 15)

\* M * 2^(N - L) against 2^1024, L the number of digits of M
OverflowBand(M, N, L) ==
    IF N > 1025 THEN {TRUE}
    ELSE IF N < 1024 THEN {FALSE}
    ELSE IF N = 1025
         THEN (IF MagGreater(M, MagAdd(ShiftLeft(<<1>>, L - 1),
                                       ShiftLeft(<<1>>, L - 51), 0))
               THEN {TRUE} ELSE {TRUE, FALSE})
    ELSE (IF MagGreater(ShiftLeft(<<1>>, L),
                        MagAdd(M, ShiftLeft(<<1>>, L - 51), 0))
          THEN {FALSE} ELSE {TRUE, FALSE})

ProductOverflows(M, e) == OverflowBand(M, BitLen(M) + e, BitLen(M))

WideProduct(pref, E) == ProductOverflows(MagMul(pref.m, E.m), pref.e + E.e)

\* line 76: z = (Rs*I0)/(n*Vth) * np.exp(x) is inf, for np.exp(x) finite.
\* np.exp returns a float next to the exponential (which neighbour depends
\* on the build's libm) and the product is rounded, so the product overflows
\* when the exact |pref| * e^x is above 2^1024 by more than one part in 2^50,
\* does not when it is below by more than that, and can do either in between.
ZOverflows(pref, x) ==
    IF pref.k # "fin" THEN {TRUE}
    ELSE IF IsZero(pref) \/ x.k # "fin" \/ IsZero(x) \/ x.s = -1 THEN {FALSE}
    ELSE IF BitLen(pref.m) + pref.e <= 0 THEN {FALSE}
    ELSE WideProduct(pref, ExpWide(x))

\* line 77: I = ((Iph+I0) - V/Rsh)/(1+Rs/Rsh) - (n*Vth)/(Rs) * W(z, k=0),
\* real part.  I is non-finite when np.exp is inf or nan, when z is inf
\* (W(inf) = inf), or when 1+Rs/Rsh is zero (the first term is a numpy
\* division by 0.0); otherwise every term is finite.
FiniteAt(inv, x) ==
    IF ExpOverflows(x) \/ IsZero(inv.one) THEN {FALSE}
    ELSE { ~o : o \in ZOverflows(inv.pref, x) }

\* lines 75-78 for one sample: whether I is finite (the outcomes the build
\* can produce)
FiniteSample(inv, v) == FiniteAt(inv, ExpArg(inv, SampleValue(v)))

FiniteOutcomes(p, v) == FiniteSample(LoopInvariants(p), v)

FiniteSweep(inv) == [v \in VMin..(VMax - 1) |-> FiniteSample(inv, v)]

\* the parameter sets the caller's argument tuples unpack to
SweptParameters ==
    { Concat(CallerLists, a) : a \in { b \in ArgChoices :
                                         Len(Concat(CallerLists, b)) = 6 } }

\* FiniteOutcomes for every sample of every swept parameter set, evaluated
\* once
FiniteTable == [q \in SweptParameters |-> FiniteSweep(LoopInvariants(Unpack(q)))]

FiniteLookup(p, q, v) ==
    IF q \in SweptParameters /\ v \in VMin..(VMax - 1)
    THEN FiniteTable[q][v] ELSE FiniteOutcomes(p, v)

\* lines 76-77: the values I can take at sample v
ModelCurrent(p, v) ==
    { [p |-> p, V |-> v, neg |-> FALSE, finite |-> f] :
        f \in FiniteLookup(p, <<p.n, p.T, p.I0, p.Iph, p.Rs, p.Rsh>>, v) }

Neg(x) == [x EXCEPT !.neg = ~x.neg]

\* the derived I appended as it is
StoredUnnegated(I) == I

\* line 78: the value appended for the derived I
Stored(I) == Neg(I)

\* line 75: the element the for loop binds to V on its k-th iteration
LoopElement(h, vs, k) == h[vs][k]

-----------------------------------------------------------------------------
(* generateIV *)

CallRecord(args, status, result, p, evaluated) ==
    [args |-> args, status |-> status, result |-> result, p |-> p,
     evaluated |-> evaluated]

Init ==
    /\ pc = "idle"
    /\ heap = CallerLists
    /\ user_parameters = <<>> /\ default = 0 /\ parameters = 0
    /\ unpacked = <<>> /\ voltages = 0 /\ currents = 0 /\ it = 0 /\ V = 0
    /\ calls = <<>>
    /\ helper = "" /\ data = <<>> /\ kwargs = <<>> /\ fig = <<>>
    /\ raised = ""

\* lines 48-62, unpacking fails: ValueError, nothing else was created
CallValueError(args) ==
    /\ pc = "idle"
    /\ Len(calls) < MaxCalls
    /\ LET h1 == Append(heap, DefaultParameters)
           c  == CollectParameters(h1, args, Len(h1))
       IN  /\ ~UnpackOK(c.heap[c.id])
           /\ heap' = c.heap
           /\ calls' = Append(calls,
                         CallRecord(args, "ValueError", 0, <<>>, 0))
    /\ UNCHANGED <<pc, user_parameters, default, parameters, unpacked,
                   voltages, currents, it, V>>
    /\ UNCHANGED plotVars

\* lines 48-72: collect and unpack the parameters, build the voltage list
\* and the empty current list, enter the loop
Call(args) ==
    /\ pc = "idle"
    /\ Len(calls) < MaxCalls
    /\ LET h1 == Append(heap, DefaultParameters)
           c  == CollectParameters(h1, args, Len(h1))
           h2 == Append(c.heap, arange(VMin, VMax, step_size))
           h3 == Append(h2, <<>>)
       IN  /\ UnpackOK(c.heap[c.id])
           /\ user_parameters' = args
           /\ default' = Len(h1)
           /\ parameters' = c.id
           /\ unpacked' = Unpack(c.heap[c.id])
           /\ voltages' = Len(h2)
           /\ currents' = Len(h3)
           /\ heap' = h3
    /\ it' = 1
    /\ V' = 0
    /\ pc' = "loop"
    /\ UNCHANGED calls
    /\ UNCHANGED plotVars

\* lines 75-79, one iteration: z, I, currents.append(-I.real), V += step_size
LoopStep ==
    /\ pc = "loop"
    /\ it <= Len(heap[voltages])
    /\ ~DividesByZero(unpacked)
    /\ LET v == LoopElement(heap, voltages, it)
       IN  /\ \E I \in ModelCurrent(unpacked, v) :
                  heap' = [heap EXCEPT ![currents] = Append(@, Stored(I))]
           /\ V' = v + step_size
    /\ it' = it + 1
    /\ UNCHANGED <<pc, user_parameters, default, parameters, unpacked,
                   voltages, currents, calls>>
    /\ UNCHANGED plotVars

\* lines 76-77: a division by a zero Python number raises ZeroDivisionError
\* out of generateIV; nothing is returned
LoopRaise ==
    /\ pc = "loop"
    /\ it <= Len(heap[voltages])
    /\ DividesByZero(unpacked)
    /\ calls' = Append(calls,
                  CallRecord(user_parameters, "ZeroDivisionError", 0,
                             unpacked, Len(heap[currents])))
    /\ pc' = "idle"
    /\ user_parameters' = <<>> /\ default' = 0 /\ parameters' = 0
    /\ unpacked' = <<>> /\ voltages' = 0 /\ currents' = 0 /\ it' = 0 /\ V' = 0
    /\ UNCHANGED heap
    /\ UNCHANGED plotVars

\* lines 81-82: the loop is exhausted; IV_data = [voltages, currents]
Return ==
    /\ pc = "loop"
    /\ it > Len(heap[voltages])
    /\ heap' = Append(heap, <<voltages, currents>>)
    /\ calls' = Append(calls,
                  CallRecord(user_parameters, "returned", Len(heap) + 1,
                             unpacked, Len(heap[currents])))
    /\ pc' = "idle"
    /\ user_parameters' = <<>> /\ default' = 0 /\ parameters' = 0
    /\ unpacked' = <<>> /\ voltages' = 0 /\ currents' = 0 /\ it' = 0 /\ V' = 0
    /\ UNCHANGED plotVars

Next ==
    \/ \E args \in ArgChoices : CallValueError(args)
    \/ \E args \in ArgChoices : Call(args)
    \/ LoopStep
    \/ LoopRaise
    \/ Return

Spec == Init /\ [][Next]_vars

-----------------------------------------------------------------------------
(* Plotting helpers *)

\* option names a caller may pass as keyword arguments
KwargNames == {"title", "xlabel", "ylabel", "yscale", "color"}

KwargValue(name, log) ==
    CASE name = "title"  -> "I-V curve"
      [] name = "xlabel" -> "voltage / [V]"
      [] name = "ylabel" -> "current / [A]"
      [] name = "yscale" -> (IF log THEN "log" ELSE "linear")
      [] name = "color"  -> "red"

KwargChoices ==
    { [k \in S |-> KwargValue(k, log)] :
        S \in { T \in SUBSET KwargNames : Cardinality(T) <= MaxOptions },
        log \in BOOLEAN }

\* current samples (nanoamperes) a plotted series may hold
SampleValues == {-3, 2}

YSeries == UNION { [1..len -> SampleValues] : len \in 0..MaxData }

\* an axis limit left to autoscaling; a limit that has been set is the pair
\* <<m, e>> standing for the number m * 10^e
Auto == <<>>

\* an empty linear-scale subplot with automatic limits
EmptyAxes ==
    [lines |-> <<>>, title |-> "", xlabel |-> "", ylabel |-> "",
     yscale |-> "linear", xlim |-> <<Auto, Auto>>, ylim |-> <<Auto, Auto>>,
     marks |-> <<>>]

\* plt.subplots(1, n): a new figure of n empty subplots; it becomes pyplot's
\* current figure and its last subplot the current axes
Subplots(n) ==
    [suptitle |-> "", figsize |-> <<>>, axes |-> [i \in 1..n |-> EmptyAxes]]

\* ax.plot(xdata, ydata) draws a line from a copy of the data; ax.plot()
\* draws nothing
Plot(ax, xdata, ydata) ==
    [ax EXCEPT !.lines = Append(@, [x |-> xdata, y |-> ydata])]

\* lines 117-123 and 147-153: for name, value in kwargs.items()
ApplyKwargs(ax, kw) ==
    [ax EXCEPT
       !.title  = IF "title"  \in DOMAIN kw THEN kw["title"]  ELSE @,
       !.xlabel = IF "xlabel" \in DOMAIN kw THEN kw["xlabel"] ELSE @,
       !.ylabel = IF "ylabel" \in DOMAIN kw THEN kw["ylabel"] ELSE @]

\* the current samples plotted with their sign
SemilogYDataSigned(ys) == ys

\* lines 138 and 167: [abs(val) for val in ...]
SemilogYData(ys) == [i \in 1..Len(ys) |-> Abs(ys[i])]

\* lines 85-125
make_fig(d, kw) ==
    /\ pc = "idle"
    /\ LET plotted == IF d # <<>>
                      THEN Plot(EmptyAxes, heap[heap[d[1]][1]], heap[heap[d[1]][2]])
                      ELSE EmptyAxes
       IN  fig' = [Subplots(1) EXCEPT !.figsize = <<5, 5>>,
                                      !.axes[1] = ApplyKwargs(plotted, kw)]
    /\ helper' = "make_fig"
    /\ data' = d
    /\ kwargs' = kw
    /\ raised' = ""
    /\ UNCHANGED heap
    /\ UNCHANGED solverVars

\* lines 128-155
make_semilog_fig(d, kw) ==
    /\ pc = "idle"
    /\ LET plotted == IF d # <<>>
                      THEN Plot(EmptyAxes, heap[heap[d[1]][1]],
                                SemilogYData(heap[heap[d[1]][2]]))
                      ELSE EmptyAxes
           logged  == [plotted EXCEPT !.yscale = "log"]
       IN  fig' = [Subplots(1) EXCEPT !.figsize = <<5, 5>>,
                                      !.axes[1] = ApplyKwargs(logged, kw)]
    /\ helper' = "make_semilog_fig"
    /\ data' = d
    /\ kwargs' = kw
    /\ raised' = ""
    /\ UNCHANGED heap
    /\ UNCHANGED solverVars

\* lines 172-178: ax1.plot(data[0], abs_current); ax1.set(...)
SemilogAxes(xdata, ydata) ==
    [Plot(EmptyAxes, xdata, SemilogYData(ydata)) EXCEPT
       !.title  = "abs(I) vs. V [semilog]",
       !.xlabel = "voltage / [V]",
       !.ylabel = "current / [A]",
       !.yscale = "log",
       !.ylim   = << <<1, -9>>, <<1, 1>> >>]

\* lines 181-188: ax2.plot(data[0], data[1]); ax2.set(...); axhline; axvline
LinearAxes(xdata, ydata) ==
    [Plot(EmptyAxes, xdata, ydata) EXCEPT
       !.title  = "linear I vs. V [linear]",
       !.xlabel = "voltage / [V]",
       !.ylabel = "current / [A]",
       !.marks  = <<"axhline(0)", "axvline(0)">>]

\* line 165: def plotIV_inline(data, title='default title') binds one
\* positional argument and the keyword title; a call without data, or with
\* any other keyword, raises TypeError before the body runs
BindsPlotIV(d, kw) == d # <<>> /\ DOMAIN kw \subseteq {"title"}

\* lines 165-190
plotIV_inline(d, kw) ==
    /\ pc = "idle"
    /\ IF BindsPlotIV(d, kw)
       THEN /\ fig' = [Subplots(2) EXCEPT
                         !.suptitle = IF "title" \in DOMAIN kw
                                      THEN kw["title"] ELSE "default title",
                         !.figsize  = <<15, 5>>,
                         !.axes[1]  = SemilogAxes(heap[heap[d[1]][1]],
                                                  heap[heap[d[1]][2]]),
                         !.axes[2]  = LinearAxes(heap[heap[d[1]][1]],
                                                 heap[heap[d[1]][2]])]
            /\ helper' = "plotIV_inline"
            /\ data' = d
            /\ kwargs' = kw
            /\ raised' = ""
       ELSE /\ raised' = "TypeError"
            /\ UNCHANGED <<helper, data, kwargs, fig>>
    /\ UNCHANGED heap
    /\ UNCHANGED solverVars

\* the windows a caller zooms to: setZoom's defaults
\* (-0.1, 1.0, -0.03, 0.01) and (-2.0, 0.0, 1.0E-6, 1.0)
ZoomChoices ==
    { [xmin |-> <<-1, -1>>, xmax |-> <<1, 0>>, ymin |-> <<-3, -2>>, ymax |-> <<1, -2>>],
      [xmin |-> <<-2, 0>>,  xmax |-> <<0, 0>>, ymin |-> <<1, -6>>,  ymax |-> <<1, 0>>] }

\* set_xlim / set_ylim as plt.axis calls them: on a log-scaled axis a limit
\* that is not positive is ignored and the axis keeps the limit it had
SetLim(scale, old, lo, hi) ==
    << IF scale = "log" /\ lo[1] <= 0 THEN old[1] ELSE lo,
       IF scale = "log" /\ hi[1] <= 0 THEN old[2] ELSE hi >>

\* pyplot's current figure; plt.axis makes one, with one empty subplot, when
\* no figure exists yet
CurrentFigure == IF fig = <<>> THEN Subplots(1) ELSE fig

\* lines 159-161: plt.axis([xmin, xmax, ymin, ymax]) sets the limits of
\* pyplot's current axes (the last subplot of the figure created last); the
\* figure argument is not read and is returned as it is
setZoom(z) ==
    /\ pc = "idle"
    /\ fig' = [CurrentFigure EXCEPT !.axes[Len(CurrentFigure.axes)] =
                 [@ EXCEPT !.xlim = SetLim("linear", @, z.xmin, z.xmax),
                           !.ylim = SetLim(CurrentFigure.axes[Len(CurrentFigure.axes)].yscale,
                                           @, z.ymin, z.ymax)]]
    /\ raised' = ""
    /\ UNCHANGED <<helper, data, kwargs>>
    /\ UNCHANGED heap
    /\ UNCHANGED solverVars

\* a caller holding one voltage/current pair [xdata, ydata] (object 3)
InitPlot ==
    /\ pc = "idle"
    /\ \E ys \in YSeries :
         heap = << arange(VMin, VMin + Len(ys) * step_size, step_size), ys,
                   <<1, 2>> >>
    /\ user_parameters = <<>> /\ default = 0 /\ parameters = 0
    /\ unpacked = <<>> /\ voltages = 0 /\ currents = 0 /\ it = 0 /\ V = 0
    /\ calls = <<>>
    /\ helper = "" /\ data = <<>> /\ kwargs = <<>> /\ fig = <<>>
    /\ raised = ""

NextPlot ==
    \/ \E d \in {<<>>, <<3>>}, kw \in KwargChoices : make_fig(d, kw)
    \/ \E d \in {<<>>, <<3>>}, kw \in KwargChoices : make_semilog_fig(d, kw)
    \/ \E d \in {<<>>, <<3>>}, kw \in KwargChoices : plotIV_inline(d, kw)
    \/ \E z \in ZoomChoices : setZoom(z)

SpecPlot == InitPlot /\ [][NextPlot]_vars

-----------------------------------------------------------------------------
(* Properties *)

Returned == { k \in 1..Len(calls) : calls[k].status = "returned" }

\* the voltage and current list objects of the k-th call's IV_data
VoltagesOf(k) == heap[calls[k].result][1]

CurrentsOf(k) == heap[calls[k].result][2]

\* the entries the caller supplied to the k-th call, in order
Supplied(k) == Concat(CallerLists, calls[k].args)

\* a sweep: as many currents as voltages, first sample VMin, consecutive
\* samples one step apart, VMax excluded, ceil((VMax - VMin)/step) samples
SweepShape(vs, cs) ==
    /\ Len(vs) = Len(cs)
    /\ Len(vs) > 0
    /\ vs[1] = VMin
    /\ \A i \in 1..(Len(vs) - 1) : vs[i + 1] = vs[i] + step_size
    /\ \A i \in 1..Len(vs) : vs[i] < VMax
    /\ Len(vs) * step_size >= VMax - VMin
    /\ (Len(vs) - 1) * step_size < VMax - VMin

\* C1: when the loop of a solve is exhausted, and in every returned result,
\* voltages and currents have equal length, voltages start at v_min, rise by
\* exactly one step, exclude v_max, and number ceil((v_max - v_min)/step);
\* the in-loop V += step_size does not change that.
C1_SweepShape ==
    /\ (pc = "loop" /\ it > Len(heap[voltages]))
          => SweepShape(heap[voltages], heap[currents])
    /\ \A k \in Returned : SweepShape(heap[VoltagesOf(k)], heap[CurrentsOf(k)])

\* the loop is exhausted and the loop variable V has been stepped to v_max
C1_Witness ==
    /\ pc = "loop"
    /\ it > Len(heap[voltages])
    /\ V = VMax

\* parameters outside their domain: a non-positive shunt resistance or
\* temperature, a negative series resistance, saturation current or
\* photocurrent (Rs = 0 is the limiting case of C3 and is left in the domain)
InvalidParameters(p) ==
    p.Rs < 0 \/ p.Rsh <= 0 \/ p.T <= 0 \/ p.I0 < 0 \/ p.Iph < 0

\* C2: a parameter set that violates a domain constraint is rejected with
\* InvalidParameterError at construction time: the sweep is never entered
\* with it, no sample is evaluated and no series is produced.
C2_InvalidParametersRejected ==
    /\ pc = "loop" => ~InvalidParameters(unpacked)
    /\ \A k \in 1..Len(calls) :
         (calls[k].p # <<>> /\ InvalidParameters(calls[k].p))
            => /\ calls[k].status = "InvalidParameterError"
               /\ calls[k].evaluated = 0
               /\ calls[k].result = 0

\* C3: with Rs = 0 (the other parameters in their domain) the solve never
\* divides by Rs: it completes the whole sweep and returns one finite
\* current per voltage sample.
C3_ZeroSeriesResistanceSolves ==
    \A k \in 1..Len(calls) :
      (/\ calls[k].p # <<>>
       /\ calls[k].p.Rs = 0
       /\ calls[k].p.Rsh > 0 /\ calls[k].p.T > 0 /\ calls[k].p.n > 0)
         => /\ calls[k].status = "returned"
            /\ calls[k].evaluated = Len(arange(VMin, VMax, step_size))
            /\ \A i \in 1..Len(heap[CurrentsOf(k)]) :
                 heap[CurrentsOf(k)][i].finite

\* C4: every series a solve returns contains only finite currents (a
\* non-finite sample makes the solve fail instead); stated here for solves
\* whose parameters are all inside their domain.
C4_ReturnedCurrentsFinite ==
    \A k \in Returned :
      ~InvalidParameters(calls[k].p)
        => \A i \in 1..Len(heap[CurrentsOf(k)]) : heap[CurrentsOf(k)][i].finite

\* C5: a call supplying only some of the parameters completes, each absent
\* parameter taking its documented default and each supplied one the
\* caller's value.
C5_AbsentParametersDefault ==
    \A k \in 1..Len(calls) :
      Len(Supplied(k)) <= 6
        => /\ calls[k].status # "ValueError"
           /\ calls[k].p =
                Unpack(Supplied(k)
                       \o SubSeq(DefaultParameters, Len(Supplied(k)) + 1, 6))

\* C6: entries beyond the recognized parameters raise no error; the solve
\* ignores them and uses the recognized ones.
C6_ExtraEntriesIgnored ==
    \A k \in 1..Len(calls) :
      Len(Supplied(k)) > 6
        => /\ calls[k].status # "ValueError"
           /\ calls[k].p = Unpack(SubSeq(Supplied(k), 1, 6))

\* C7: every solve also yields a current-density series, as long as the
\* voltage and current series.
C7_DensitySeriesReturned ==
    \A k \in Returned :
      /\ Len(heap[calls[k].result]) = 3
      /\ Len(heap[heap[calls[k].result][3]]) = Len(heap[CurrentsOf(k)])

\* currents cs pair with voltages vs under parameters p: the i-th current
\* is the model current of p evaluated at the i-th voltage, negated (the
\* derived I itself carries neg = FALSE)
Paired(p, vs, cs) ==
    /\ Len(cs) <= Len(vs)
    /\ \A i \in 1..Len(cs) :
         /\ cs[i].p = p
         /\ cs[i].V = vs[i]
         /\ cs[i].neg

\* C8: at every point of the sweep and in every returned result, currents[i]
\* is the negation of the model current evaluated at exactly voltages[i]:
\* one sample per voltage visited, in sweep order, none shifted, skipped or
\* duplicated.
C8_CurrentsPairedNegated ==
    /\ pc = "loop"
         => /\ Paired(unpacked, heap[voltages], heap[currents])
            /\ Len(heap[currents]) = it - 1
    /\ \A k \in Returned :
         /\ Paired(calls[k].p, heap[VoltagesOf(k)], heap[CurrentsOf(k)])
         /\ Len(heap[CurrentsOf(k)]) = Len(heap[VoltagesOf(k)])

\* a sweep under illuminated, n = 2 parameters has evaluated every sample
C8_Witness ==
    /\ pc = "loop"
    /\ user_parameters = <<2, 3>>
    /\ it > Len(heap[voltages])
    /\ Len(heap[currents]) > 1

\* the list objects handed back by the k-th call
ResultObjects(k) == {calls[k].result, VoltagesOf(k), CurrentsOf(k)}

C9_State ==
    /\ \A k \in 1..Len(CallerLists) : heap[k] = CallerLists[k]
    /\ default # 0 => heap[default] = DefaultParameters
    /\ \A k \in Returned :
         /\ Cardinality(ResultObjects(k)) = 3
         /\ ResultObjects(k) \cap (1..Len(CallerLists)) = {}
         /\ pc = "loop" => ResultObjects(k) \cap {default, parameters,
                                                  voltages, currents} = {}
    /\ \A j, k \in Returned :
         /\ j # k => ResultObjects(j) \cap ResultObjects(k) = {}
         /\ calls[j].p = calls[k].p
              => /\ heap[VoltagesOf(j)] = heap[VoltagesOf(k)]
                 /\ heap[CurrentsOf(j)] = heap[CurrentsOf(k)]

C9_Step ==
    \A k \in Returned : \A o \in ResultObjects(k) : heap'[o] = heap[o]

\* C9: solve calls share no mutable state: returned voltage and current
\* lists are fresh objects aliased with nothing else, no later step changes
\* a result returned earlier, the caller's parameter lists and the defaults
\* stay unchanged, and calls with equal parameters return equal series.
C9_NoSharedState == [](C9_State) /\ [][C9_Step]_vars

\* two returned calls, differently invoked, with equal parameters
C9_Witness ==
    /\ Len(calls) >= 2
    /\ calls[1].status = "returned" /\ calls[2].status = "returned"
    /\ calls[1].args # calls[2].args
    /\ calls[1].p = calls[2].p

\* the data pair a helper was given: object 3 holds [xdata, ydata]
XData == heap[heap[data[1]][1]]

YData == heap[heap[data[1]][2]]

\* the figure of make_fig / make_semilog_fig: one subplot holding the
\* series (its absolute values on a log axis for make_semilog_fig), the
\* passed title, xlabel and ylabel, and nothing else taken from the options
C10_SingleRendered ==
    /\ Len(fig.axes) = 1
    /\ fig.suptitle = ""
    /\ data = <<>> => fig.axes[1].lines = <<>>
    /\ data # <<>> =>
         /\ Len(fig.axes[1].lines) = 1
         /\ fig.axes[1].lines[1].x = XData
         /\ Len(fig.axes[1].lines[1].y) = Len(YData)
         /\ \A i \in 1..Len(YData) :
              fig.axes[1].lines[1].y[i] = IF helper = "make_semilog_fig"
                                          THEN Abs(YData[i]) ELSE YData[i]
    /\ \A k \in {"title", "xlabel", "ylabel"} :
         fig.axes[1][k] = IF k \in DOMAIN kwargs THEN kwargs[k] ELSE ""
    /\ fig.axes[1].yscale = IF helper = "make_semilog_fig" THEN "log" ELSE "linear"

\* the figure of plotIV_inline: abs(current) against voltage on a log axis
\* in the first subplot, current against voltage on a linear axis in the
\* second, fixed subplot titles and labels, the title option (or its
\* default) as the figure's caption, and no other option accepted
C10_InlineRendered ==
    /\ data # <<>>
    /\ DOMAIN kwargs \subseteq {"title"}
    /\ Len(fig.axes) = 2
    /\ fig.suptitle = IF "title" \in DOMAIN kwargs THEN kwargs["title"]
                      ELSE "default title"
    /\ \A a \in 1..2 :
         /\ Len(fig.axes[a].lines) = 1
         /\ fig.axes[a].lines[1].x = XData
         /\ Len(fig.axes[a].lines[1].y) = Len(YData)
         /\ \A i \in 1..Len(YData) :
              fig.axes[a].lines[1].y[i] = IF a = 1 THEN Abs(YData[i])
                                          ELSE YData[i]
         /\ fig.axes[a].xlabel = "voltage / [V]"
         /\ fig.axes[a].ylabel = "current / [A]"
    /\ fig.axes[1].title = "abs(I) vs. V [semilog]"
    /\ fig.axes[2].title = "linear I vs. V [linear]"
    /\ fig.axes[1].yscale = "log"
    /\ fig.axes[2].yscale = "linear"

\* a log-scaled y-axis never takes a limit that is not positive: setZoom
\* leaves such a limit as it was
C10_LogLimits ==
    \A a \in 1..Len(fig.axes) :
       fig.axes[a].yscale = "log" =>
          \A j \in 1..2 : fig.axes[a].ylim[j] = Auto \/ fig.axes[a].ylim[j][1] > 0

C10_Rendered ==
    fig # <<>> =>
      /\ IF helper = "plotIV_inline" THEN C10_InlineRendered
         ELSE C10_SingleRendered
      /\ C10_LogLimits

\* no helper changes the data lists; a call raises (TypeError) exactly when
\* it is a call of plotIV_inline without data or with an option other than
\* title, and it then renders nothing
C10_Step ==
    /\ heap' = heap
    /\ raised' # "" =>
         /\ raised' = "TypeError"
         /\ UNCHANGED <<helper, data, kwargs, fig>>
         /\ \E d \in {<<>>, <<3>>}, kw \in KwargChoices :
              plotIV_inline(d, kw) /\ ~BindsPlotIV(d, kw)
    /\ raised' = "" =>
         \A d \in {<<>>, <<3>>}, kw \in KwargChoices :
            plotIV_inline(d, kw) => BindsPlotIV(d, kw)

====
